---- MODULE Spec2Model ----
(***************************************************************************)
(* Model of gitreview-gpt's diff formatting and review application:        *)
(*   formatter.format_git_diff, formatter.parse_apply_review_per_code_hunk *)
(*   reviewer.apply_review, reviewer.request_review_changes,               *)
(*   reviewer.request_review.                                              *)
(***************************************************************************)
EXTENDS Integers, Sequences, FiniteSets, TLC

(***************************************************************************)
(* Bounds of the model.                                                    *)
(***************************************************************************)
\* largest absolute line number of the reviewed file
MaxLine == 3
\* most hunks of the reviewed file
MaxHunks == 2
\* most entries of the review JSON
MaxEntries == 3
\* most files of a diff
MaxFiles == 9
\* the leading files of a diff that take any header and any hunks; the files
\* after them are modified files with one one-line hunk
MaxRichFiles == 2
\* most hunks of the leading files of a diff
MaxDiffHunks == 2
\* most files of a diff that are new or change their mode
MaxSpecialFiles == 1

(***************************************************************************)
(* Program constants.                                                      *)
(***************************************************************************)
\* reviewer.py:80 and :126, the chunked-request token ceiling
TokenCeiling == 2048
\* reviewer.py:158, the completion window the whole-file request is sized to
ContextWindow == 4096

None == "None"

VARIABLES
  \* ---- reviewer.apply_review ----
  selection_marker_chunks, \* None or the marker groups, in dict order
  review_json,             \* the keys of the review of the file, in dict order
  tokens,                  \* measured cost of the whole-file prompt
  prompt_tokens,           \* measured cost of the empty chunk prompt
  pc,                      \* position inside apply_review
  line_number_stack,       \* Python list, top is the last element
  group_idx,               \* position of the loop over the marker groups
  chunk_payload,           \* payloads of the current group still to be measured
  code_chunks_to_review,   \* payloads that passed the budget test
  measured,                \* every measured payload with its cost
  attach_log,              \* per visited unit, the entries attached to it
  calls,                   \* the result of every merge call, in order
  send_idx,                \* position of the loop over code_chunks_to_review
  requests,                \* requests handed to request.send_request
  reviewed_code,           \* code blocks the service returned
  file_on_disk,            \* content of the target file
  \* ---- formatter.format_git_diff ----
  diff_text,               \* the unified diff
  diff_files,              \* per file of the diff, its header kind and hunks
  diff_pc,                 \* "building", then "formatted"
  formatted,               \* what format_git_diff returned
  \* ---- reviewer.request_review ----
  rr_pc,                   \* position inside request_review
  rr_response,             \* what the last response of the service holds
  rr_layers,               \* the parse layers tried, in order
  rr_requests,             \* requests handed to request.send_request
  rr_result                \* what request_review returned

apply_vars == << selection_marker_chunks, review_json, tokens, prompt_tokens, pc,
                 line_number_stack, group_idx, chunk_payload,
                 code_chunks_to_review, measured, attach_log, calls, send_idx,
                 requests, reviewed_code, file_on_disk >>

diff_vars == << diff_text, diff_files, diff_pc, formatted >>

review_vars == << rr_pc, rr_response, rr_layers, rr_requests, rr_result >>

vars == << apply_vars, diff_vars, review_vars >>

(***************************************************************************)
(* Sequences.                                                              *)
(***************************************************************************)
RECURSIVE SeqsUpTo(_, _)
SeqsUpTo(S, n) ==
  IF n = 0 THEN { <<>> }
  ELSE LET shorter == SeqsUpTo(S, n - 1)
       IN shorter \cup { Append(s, x) : s \in { t \in shorter : Len(t) = n - 1 }, x \in S }

Reversed(s) == [ i \in 1..Len(s) |-> s[Len(s) + 1 - i] ]

Range(s) == { s[i] : i \in 1..Len(s) }

(***************************************************************************)
(* Diff text.  A text is a sequence of lines and a flag telling whether    *)
(* the last line ends with a newline.  A line is a record: its kind is     *)
(* what its first characters are, path its "/"-separated components (for   *)
(* the lines that hold a path), new_start/new_count/trailing the fields of  *)
(* a hunk header "@@ -a,b +c,d @@ trailing".                                *)
(***************************************************************************)
Line(kind, path, new_start, new_count, trailing) ==
  [ kind |-> kind, path |-> path, new_start |-> new_start,
    new_count |-> new_count, trailing |-> trailing ]

Plain(kind)         == Line(kind, <<>>, 0, 0, "")
PathLine(kind, p)   == Line(kind, p, 0, 0, "")
HunkHeader(s, c, t) == Line("@@", <<>>, s, c, t)

Text(lines, nl) == [ lines |-> lines, nl |-> nl ]

\* line i of the text is followed by "\n"
Terminated(text, i) == i < Len(text.lines) \/ text.nl

Last(s) == s[Len(s)]

RECURSIVE SelectIdx(_, _)
\* the indices >= i at which the sequence of booleans holds TRUE, ascending
SelectIdx(flags, i) ==
  IF i > Len(flags) THEN <<>>
  ELSE IF flags[i] THEN << i >> \o SelectIdx(flags, i + 1)
       ELSE SelectIdx(flags, i + 1)

\* re.MULTILINE, which formatter.py:32 passes in the place of maxsplit
re_MULTILINE == 8

\* re.split(r"\n\+{3,}\s", diff_text, re.MULTILINE): a "+++ " line that follows
\* a newline separates; at most maxsplit separators are used; the text of the
\* separator line after "+++ " opens the next chunk
IsSeparator(s) == [ i \in 1..Len(s) |-> i >= 2 /\ s[i].kind = "+++" ]

SplitFiles(diff, maxsplit) ==
  LET all  == SelectIdx(IsSeparator(diff.lines), 1)
      cuts == IF Len(all) > maxsplit THEN SubSeq(all, 1, maxsplit) ELSE all
      n    == Len(cuts)
      lo(m) == IF m = 0 THEN 1 ELSE cuts[m] + 1
      hi(m) == IF m = n THEN Len(diff.lines) ELSE cuts[m + 1] - 1
      head(m) == IF m = 0 THEN <<>>
                 ELSE << PathLine("rest", diff.lines[cuts[m]].path) >>
  IN [ m \in 0..n |->
         Text(head(m) \o SubSeq(diff.lines, lo(m), hi(m)),
              IF m = n THEN diff.nl ELSE FALSE) ]

RECURSIVE SubDiffGitPair(_, _)
\* re.sub(r"(diff --git.*\n)(.*\n)", group 1): the line after a "diff --git"
\* line is removed when both end with a newline
SubDiffGitPair(text, i) ==
  IF i > Len(text.lines) THEN <<>>
  ELSE IF /\ text.lines[i].kind = "diff --git"
          /\ i + 1 <= Len(text.lines)
          /\ Terminated(text, i + 1)
       THEN << text.lines[i] >> \o SubDiffGitPair(text, i + 2)
       ELSE << text.lines[i] >> \o SubDiffGitPair(text, i + 1)

\* re.sub(r"^diff --git.*\n", "", flags=re.MULTILINE)
SubDiffGit(text) ==
  LET keep == [ i \in 1..Len(text.lines) |->
                  ~ (text.lines[i].kind = "diff --git" /\ Terminated(text, i)) ]
      idx  == SelectIdx(keep, 1)
  IN Text([ k \in 1..Len(idx) |-> text.lines[idx[k]] ], text.nl)

\* formatter.py:39-42
RemoveGitDiffSection(file_chunk) ==
  SubDiffGit(Text(SubDiffGitPair(file_chunk, 1), file_chunk.nl))

\* re.split(r"(?=@@ -\d+,\d+ \+\d+,\d+ @@)", file_chunk): the pieces, the
\* first the file name part, each other one opening with a hunk header
IsHunkHeader(s) == [ i \in 1..Len(s) |-> s[i].kind = "@@" ]

SplitHunks(file_chunk) ==
  LET cuts == SelectIdx(IsHunkHeader(file_chunk.lines), 1)
      n    == Len(cuts)
      lo(m) == IF m = 0 THEN 1 ELSE cuts[m]
      hi(m) == IF m = n THEN Len(file_chunk.lines) ELSE cuts[m + 1] - 1
  IN [ m \in 1..(n + 1) |-> SubSeq(file_chunk.lines, lo(m - 1), hi(m - 1)) ]

\* text.rsplit("/", 1)[-1]: what follows the last "/" of the text
HasSlash(s) == [ i \in 1..Len(s) |-> Len(s[i].path) > 1 ]

RSplitSlashLast(lines) ==
  LET idx == SelectIdx(HasSlash(lines), 1)
  IN IF Len(idx) = 0 THEN [ name |-> "", after |-> lines ]
     ELSE [ name  |-> Last(lines[Last(idx)].path),
            after |-> SubSeq(lines, Last(idx) + 1, Len(lines)) ]

\* text[2:]: the text without its first two characters, "b/" of "b/dir/name"
DropTwoChars(lines) ==
  IF Len(lines) = 0 THEN [ path |-> <<>>, after |-> <<>> ]
  ELSE [ path |-> Tail(lines[1].path), after |-> Tail(lines) ]

\* the text a hunk header may carry after its second "@@"
HeaderTexts == { "", "def foo(a):" }

\* line.split("def", 1) of a hunk header, formatter.py:80-84: what follows
\* the first "def", stripped, or "" when the line holds no "def"
optional_selection_marker(trailing) ==
  CASE trailing = "def foo(a):" -> "foo(a):"
    [] OTHER                    -> ""

(***************************************************************************)
(* formatter.format_git_diff                                               *)
(***************************************************************************)
\* class CodeChunk, formatter.py:8-16
CodeChunk(start_line, end_line, code) ==
  [ start_line |-> start_line, end_line |-> end_line, code |-> code ]

\* a line of the formatted text: the hunk header as it is, or "<n> <line>"
Unnumbered(line)  == [ numbered |-> FALSE, number |-> 0, line |-> line ]
Numbered(n, line) == [ numbered |-> TRUE, number |-> n, line |-> line ]

\* the lines the loop of formatter.py:75-95 leaves out of the text
Skipped(line) == line.kind = "---" \/ line.kind = "-"

RECURSIVE FormatLines(_, _, _, _, _)
\* the loop over code_change_chunk.splitlines(), formatter.py:75-95
FormatLines(lines, i, line_counter, chunk_formatted, marker) ==
  IF i > Len(lines)
  THEN [ chunk_formatted |-> chunk_formatted, marker |-> marker ]
  ELSE LET line == lines[i] IN
       IF line.kind = "@@"
       THEN FormatLines(lines, i + 1, line_counter,
                        Append(chunk_formatted, Unnumbered(line)),
                        optional_selection_marker(line.trailing))
       ELSE IF Skipped(line)
       THEN FormatLines(lines, i + 1, line_counter, chunk_formatted, marker)
       ELSE FormatLines(lines, i + 1, line_counter + 1,
                        Append(chunk_formatted,
                               Numbered(line_counter + 1, line)),
                        marker)

\* one code_change_chunk, formatter.py:58-103
FormatHunk(code_change_chunk) ==
  LET divider == code_change_chunk[1]
      f == FormatLines(code_change_chunk, 1, -1 + divider.new_start, <<>>, "")
  IN [ marker |-> f.marker,
       code_chunk |-> CodeChunk(divider.new_start,
                                divider.new_count + divider.new_start - 1,
                                f.chunk_formatted) ]

RECURSIVE GroupByMarker(_, _, _)
\* code_change_chunks[j]: a dict keyed by marker, insertion ordered, modelled
\* as the sequence of its items; formatter.py:105-108
GroupByMarker(hunks, i, groups) ==
  IF i > Len(hunks) THEN groups
  ELSE LET h  == hunks[i]
           at == { g \in 1..Len(groups) : groups[g].marker = h.marker }
       IN IF at = {}
          THEN GroupByMarker(hunks, i + 1,
                 Append(groups, [ marker |-> h.marker, units |-> << h.code_chunk >> ]))
          ELSE LET g == CHOOSE x \in at : TRUE
               IN GroupByMarker(hunks, i + 1,
                    [ groups EXCEPT ![g].units = Append(@, h.code_chunk) ])

RECURSIVE ConcatCode(_, _)
ConcatCode(hunks, i) ==
  IF i > Len(hunks) THEN <<>>
  ELSE hunks[i].code_chunk.code \o ConcatCode(hunks, i + 1)

\* one file_chunk of the diff, formatter.py:38-108
FormatFile(file_chunk) ==
  LET pieces == SplitHunks(RemoveGitDiffSection(file_chunk))
      hunks  == [ m \in 1..(Len(pieces) - 1) |-> FormatHunk(pieces[m + 1]) ]
      name   == RSplitSlashLast(pieces[1])
  IN [ file_name  |-> name,
       file_path  |-> DropTwoChars(pieces[1]),
       file_chunk |-> [ head |-> name, text |-> ConcatCode(hunks, 1) ],
       code_change_chunk |-> GroupByMarker(hunks, 1, <<>>) ]

\* formatter.py:22-110; dict keys j = 0..k-1 as enumerate(parent_chunks, -1)
\* gives them, the first chunk (j = -1) skipped
format_git_diff(diff) ==
  LET parent_chunks == SplitFiles(diff, re_MULTILINE)
      n     == Cardinality(DOMAIN parent_chunks) - 1
      ff    == [ j \in 0..(n - 1) |-> FormatFile(parent_chunks[j + 1]) ]
  IN [ diff_formatted     |-> [ j \in 1..n |-> ff[j - 1].file_chunk ],
       file_chunks        |-> [ j \in 0..(n - 1) |-> ff[j].file_chunk ],
       code_change_chunks |-> [ j \in 0..(n - 1) |-> ff[j].code_change_chunk ],
       file_names         |-> [ j \in 1..n |-> ff[j - 1].file_name ],
       file_paths         |-> [ j \in 1..n |-> ff[j - 1].file_path ] ]

(***************************************************************************)
(* Unified diffs as git writes them.                                       *)
(***************************************************************************)
FileNames == << "f1.py", "f2.py", "f3.py", "f4.py", "f5.py", "f6.py",
                "f7.py", "f8.py", "f9.py", "f10.py", "f11.py" >>

NewPath(i) == << "b", "pkg", FileNames[i] >>
OldPath(i) == << "a", "pkg", FileNames[i] >>
DevNull    == << "", "dev", "null" >>

HeaderKinds == { "modified", "new file", "mode change" }

\* the header lines of the i-th file of a diff
FileHeader(kind, i) ==
  CASE kind = "modified" ->
         << PathLine("diff --git", NewPath(i)), Plain("index"),
            PathLine("---", OldPath(i)), PathLine("+++", NewPath(i)) >>
    [] kind = "new file" ->
         << PathLine("diff --git", NewPath(i)), Plain("new file mode"),
            Plain("index"), PathLine("---", DevNull),
            PathLine("+++", NewPath(i)) >>
    [] kind = "mode change" ->
         << PathLine("diff --git", NewPath(i)), Plain("old mode"),
            Plain("new mode"), Plain("index"),
            PathLine("---", OldPath(i)), PathLine("+++", NewPath(i)) >>

\* the bodies of a hunk: context " ", added "+" and removed "-" lines
HunkBodies ==
  { << Plain("-") >>,
    << Plain("+") >>,
    << Plain(" "), Plain("-"), Plain("+") >>,
    << Plain("-"), Plain("+"), Plain(" "), Plain("+") >> }

\* the new-file line count a well-formed header declares for a body
NewCount(body) ==
  Cardinality({ i \in 1..Len(body) : body[i].kind \in { " ", "+" } })

Hunk(new_start, body, trailing) ==
  << HunkHeader(new_start, NewCount(body), trailing) >> \o body

(***************************************************************************)
(* formatter.parse_apply_review_per_code_hunk                              *)
(***************************************************************************)
\* list.pop() of a Python list: the last element leaves
Top(stack) == stack[Len(stack)]
Pop(stack) == SubSeq(stack, 1, Len(stack) - 1)

\* the test of the while loop, formatter.py:182-186
InHunk(code_change_hunk, line_number) ==
  /\ code_change_hunk.start_line <= line_number
  /\ line_number < code_change_hunk.start_line + code_change_hunk.end_line

\* code + "\n" + json.dumps(review_per_chunk) + "\n", a Python str; the
\* review of a line is named by its line number
StrPayload(code, review_per_chunk) ==
  [ pytype |-> "str", parts |-> << code, review_per_chunk >> ]

RECURSIVE WhileInHunk(_, _, _, _)
\* the while loop, formatter.py:182-191
WhileInHunk(code_change_hunk, line_number, stack, review_per_chunk) ==
  IF InHunk(code_change_hunk, line_number)
  THEN LET r == review_per_chunk \cup { line_number }
       IN IF stack = <<>>
          THEN [ line_number |-> line_number, stack |-> stack,
                 review_per_chunk |-> r ]
          ELSE WhileInHunk(code_change_hunk, Top(stack), Pop(stack), r)
  ELSE [ line_number |-> line_number, stack |-> stack,
         review_per_chunk |-> review_per_chunk ]

\* the loop over the hunks without its closing break
StackExhaustedNoBreak(stack) == FALSE

\* the test that ends the loop over the hunks, formatter.py:199-200
StackExhausted(stack) == stack = <<>>

RECURSIVE ForEachHunk(_, _, _, _, _, _)
\* the loop over code_changes, formatter.py:180-200; attached records, for
\* each hunk the loop visited, the line numbers it was given
ForEachHunk(code_changes, i, line_number, stack, hunk_review_payload, attached) ==
  IF i > Len(code_changes)
  THEN [ hunk_review_payload |-> hunk_review_payload,
         line_number_stack |-> stack, attached |-> attached ]
  ELSE LET hunk == code_changes[i]
           w    == WhileInHunk(hunk, line_number, stack, {})
           p    == IF w.review_per_chunk /= {}
                   THEN Append(hunk_review_payload,
                               StrPayload(hunk.code, w.review_per_chunk))
                   ELSE hunk_review_payload
           a    == Append(attached,
                          [ unit |-> hunk, lines |-> w.review_per_chunk ])
       IN IF StackExhausted(w.stack)
          THEN [ hunk_review_payload |-> p, line_number_stack |-> w.stack,
                 attached |-> a ]
          ELSE ForEachHunk(code_changes, i + 1, w.line_number, w.stack, p, a)

\* formatter.py:176-201; called with a stack that is not empty
parse_apply_review_per_code_hunk(code_changes, stack) ==
  ForEachHunk(code_changes, 1, Top(stack), Pop(stack), <<>>, <<>>)

(***************************************************************************)
(* reviewer.request_review_changes                                         *)
(***************************************************************************)
\* obj[key] of Python: a str has no item named by a str key
HasItem(obj, key) == obj.pytype = "dict" /\ key \in DOMAIN obj.items

\* reviewer.py:191-217: reads code_chunk_with_suggestions["code"] and
\* ["suggestions"], then hands one request to request.send_request
request_review_changes(code_chunk_with_suggestions, current_step, total_steps) ==
  IF HasItem(code_chunk_with_suggestions, "code")
     /\ HasItem(code_chunk_with_suggestions, "suggestions")
  THEN [ raised  |-> None,
         request |-> [ kind  |-> "chunk",
                       code  |-> code_chunk_with_suggestions.items["code"],
                       suggestions |->
                         code_chunk_with_suggestions.items["suggestions"],
                       step  |-> current_step,
                       total |-> total_steps ] ]
  ELSE [ raised |-> "TypeError", request |-> None ]

(***************************************************************************)
(* reviewer.apply_review                                                   *)
(***************************************************************************)
\* the hunks of the reviewed file: ascending, not overlapping
HunkStarts == 1..MaxLine

HunkSpecs ==
  { h \in [ new_start : HunkStarts, body : HunkBodies, trailing : HeaderTexts ] :
      h.new_start + NewCount(h.body) - 1 <= MaxLine }

HunkSeqsOk(hs) ==
  \A i \in 1..(Len(hs) - 1) :
    /\ hs[i + 1].new_start > hs[i].new_start
    /\ hs[i + 1].new_start >= hs[i].new_start + NewCount(hs[i].body)

HunkSeqs == { hs \in SeqsUpTo(HunkSpecs, MaxHunks) : HunkSeqsOk(hs) }

RECURSIVE HunkLines(_, _)
HunkLines(hs, i) ==
  IF i > Len(hs) THEN <<>>
  ELSE Hunk(hs[i].new_start, hs[i].body, hs[i].trailing) \o HunkLines(hs, i + 1)

\* the diff of one modified file with the hunks hs
OneFileDiff(hs) == Text(FileHeader("modified", 1) \o HunkLines(hs, 1), TRUE)

\* the argument selection_marker_chunks: None, or code_change_chunks[0] of the
\* file's diff, of which apply_review reads the values()
NoChunks == [ is_none |-> TRUE, values |-> <<>> ]

SelectionMarkerChunks(hs) ==
  [ is_none |-> FALSE,
    values  |-> format_git_diff(OneFileDiff(hs)).code_change_chunks[0] ]

IsInjective(s) == \A i, j \in 1..Len(s) : s[i] = s[j] => i = j

\* the keys of the review: distinct line numbers, in the order of the JSON
ReviewKeySeqs == { r \in SeqsUpTo(1..MaxLine, MaxEntries) : IsInjective(r) }

\* what utils.count_tokens may measure
FileTokenCounts   == { TokenCeiling, TokenCeiling + 1 }
PromptTokenCounts == { 1 }
ChunkTokenCounts  == { TokenCeiling - 1, TokenCeiling }

DiffIdle   == /\ diff_text = None /\ diff_files = None /\ diff_pc = None
              /\ formatted = None
ReviewIdle == /\ rr_pc = None /\ rr_response = None /\ rr_layers = None
              /\ rr_requests = None /\ rr_result = None

Init ==
  /\ selection_marker_chunks \in
       { NoChunks } \cup { SelectionMarkerChunks(hs) : hs \in HunkSeqs }
  /\ review_json \in ReviewKeySeqs
  /\ tokens \in FileTokenCounts
  /\ prompt_tokens \in PromptTokenCounts
  /\ pc = "start"
  /\ line_number_stack = <<>>
  /\ group_idx = 0
  /\ chunk_payload = <<>>
  /\ code_chunks_to_review = <<>>
  /\ measured = <<>>
  /\ attach_log = <<>>
  /\ calls = <<>>
  /\ send_idx = 0
  /\ requests = <<>>
  /\ reviewed_code = <<>>
  /\ file_on_disk = "original"
  /\ DiffIdle
  /\ ReviewIdle

\* the test of reviewer.py:80
TakesChunkedPath == tokens > TokenCeiling /\ ~ selection_marker_chunks.is_none

\* reviewer.py:82-101: the line number stack, built from the reversed keys
EnterChunkedPath ==
  /\ pc = "start"
  /\ TakesChunkedPath
  /\ line_number_stack' = Reversed(review_json)
  /\ group_idx' = 1
  /\ pc' = "groups"
  /\ UNCHANGED << selection_marker_chunks, review_json, tokens, prompt_tokens,
                  chunk_payload, code_chunks_to_review, measured, attach_log,
                  calls, send_idx, requests, reviewed_code, file_on_disk >>
  /\ UNCHANGED << diff_vars, review_vars >>

\* reviewer.py:105-116: one turn of the loop over the marker groups
MergeGroup ==
  /\ pc = "groups"
  /\ group_idx <= Len(selection_marker_chunks.values)
  /\ line_number_stack /= <<>>
  /\ LET r == parse_apply_review_per_code_hunk(
                selection_marker_chunks.values[group_idx].units, line_number_stack)
     IN /\ chunk_payload' = r.hunk_review_payload
        /\ line_number_stack' = r.line_number_stack
        /\ attach_log' = attach_log \o r.attached
        /\ calls' = Append(calls,
                            [ code_changes |->
                                selection_marker_chunks.values[group_idx].units,
                              stack  |-> line_number_stack,
                              result |-> r ])
  /\ pc' = "budget"
  /\ UNCHANGED << selection_marker_chunks, review_json, tokens, prompt_tokens,
                  group_idx, code_chunks_to_review, measured, send_idx,
                  requests, reviewed_code, file_on_disk >>
  /\ UNCHANGED << diff_vars, review_vars >>

\* the budget test with the ceiling off by one
FitsBudgetOffByOne(chunk_tokens) == chunk_tokens <= TokenCeiling + 1

\* the test of reviewer.py:126
FitsBudget(chunk_tokens) == chunk_tokens <= TokenCeiling

\* reviewer.py:119-131: one payload of the group measured, kept or skipped
MeasureChunk ==
  /\ pc = "budget"
  /\ chunk_payload /= <<>>
  /\ \E counted \in ChunkTokenCounts :
       LET chunk        == Head(chunk_payload)
           chunk_tokens == counted + prompt_tokens
       IN /\ code_chunks_to_review' =
               IF FitsBudget(chunk_tokens)
               THEN Append(code_chunks_to_review, chunk)
               ELSE code_chunks_to_review
          /\ measured' = Append(measured,
                                [ chunk |-> chunk, chunk_tokens |-> chunk_tokens ])
  /\ chunk_payload' = Tail(chunk_payload)
  /\ UNCHANGED << selection_marker_chunks, review_json, tokens, prompt_tokens, pc,
                  line_number_stack, group_idx, attach_log, calls, send_idx,
                  requests, reviewed_code, file_on_disk >>
  /\ UNCHANGED << diff_vars, review_vars >>

\* the group's payloads are all measured: the next group
NextGroup ==
  /\ pc = "budget"
  /\ chunk_payload = <<>>
  /\ group_idx' = group_idx + 1
  /\ pc' = "groups"
  /\ UNCHANGED << selection_marker_chunks, review_json, tokens, prompt_tokens,
                  line_number_stack, chunk_payload, code_chunks_to_review,
                  measured, attach_log, calls, send_idx, requests,
                  reviewed_code, file_on_disk >>
  /\ UNCHANGED << diff_vars, review_vars >>

\* reviewer.py:105-109: the loop over the groups ends, by exhaustion or break
EndGroups ==
  /\ pc = "groups"
  /\ (group_idx > Len(selection_marker_chunks.values) \/ line_number_stack = <<>>)
  /\ send_idx' = 1
  /\ pc' = "send"
  /\ UNCHANGED << selection_marker_chunks, review_json, tokens, prompt_tokens,
                  line_number_stack, group_idx, chunk_payload,
                  code_chunks_to_review, measured, attach_log, calls, requests,
                  reviewed_code, file_on_disk >>
  /\ UNCHANGED << diff_vars, review_vars >>

\* what the service may answer to a request for changes
ServiceAnswers == { "", "code" }

\* reviewer.py:133-143: one batch handed to request_review_changes; an
\* exception that apply_review does not catch ends it
RequestReviewChanges ==
  /\ pc = "send"
  /\ send_idx <= Len(code_chunks_to_review)
  /\ LET r == request_review_changes(code_chunks_to_review[send_idx], send_idx,
                                     Len(code_chunks_to_review))
     IN IF r.raised /= None
        THEN /\ pc' = r.raised
             /\ UNCHANGED << send_idx, requests, reviewed_code >>
        ELSE /\ pc' = pc
             /\ send_idx' = send_idx + 1
             /\ requests' = Append(requests, r.request)
             /\ \E answer \in ServiceAnswers :
                  reviewed_code' = IF answer /= ""
                                   THEN Append(reviewed_code, answer)
                                   ELSE reviewed_code
  /\ UNCHANGED << selection_marker_chunks, review_json, tokens, prompt_tokens,
                  line_number_stack, group_idx, chunk_payload,
                  code_chunks_to_review, measured, attach_log, calls,
                  file_on_disk >>
  /\ UNCHANGED << diff_vars, review_vars >>

\* utils.override_lines_in_file with the lines of the returned code blocks:
\* with no block no line of the file is replaced
override_lines_in_file(content, code_blocks) ==
  IF code_blocks = <<>> THEN content ELSE "overridden"

\* reviewer.py:145-153
OverrideLines ==
  /\ pc = "send"
  /\ send_idx > Len(code_chunks_to_review)
  /\ file_on_disk' = override_lines_in_file(file_on_disk, reviewed_code)
  /\ pc' = "done"
  /\ UNCHANGED << selection_marker_chunks, review_json, tokens, prompt_tokens,
                  line_number_stack, group_idx, chunk_payload,
                  code_chunks_to_review, measured, attach_log, calls, send_idx,
                  requests, reviewed_code >>
  /\ UNCHANGED << diff_vars, review_vars >>

\* reviewer.py:157-168: the request for the whole file
SendWholeFileRequest ==
  /\ pc = "start"
  /\ ~ TakesChunkedPath
  /\ requests' = Append(requests,
                        [ kind |-> "file", tokens |-> tokens,
                          max_completions_tokens |-> ContextWindow - tokens ])
  /\ pc' = "answered"
  /\ UNCHANGED << selection_marker_chunks, review_json, tokens, prompt_tokens,
                  line_number_stack, group_idx, chunk_payload,
                  code_chunks_to_review, measured, attach_log, calls, send_idx,
                  reviewed_code, file_on_disk >>
  /\ UNCHANGED << diff_vars, review_vars >>

\* reviewer.py:169-179: the file is opened for writing, which empties it, and
\* the extracted answer is written when it is not empty
WriteFile ==
  /\ pc = "answered"
  /\ \E reviewed_git_diff \in ServiceAnswers :
       file_on_disk' = IF reviewed_git_diff /= "" THEN reviewed_git_diff ELSE ""
  /\ pc' = "done"
  /\ UNCHANGED << selection_marker_chunks, review_json, tokens, prompt_tokens,
                  line_number_stack, group_idx, chunk_payload,
                  code_chunks_to_review, measured, attach_log, calls, send_idx,
                  requests, reviewed_code >>
  /\ UNCHANGED << diff_vars, review_vars >>

Next ==
  \/ EnterChunkedPath
  \/ MergeGroup
  \/ MeasureChunk
  \/ NextGroup
  \/ EndGroups
  \/ RequestReviewChanges
  \/ OverrideLines
  \/ SendWholeFileRequest
  \/ WriteFile

Spec == Init /\ [][Next]_vars

(***************************************************************************)
(* format_git_diff applied to the diffs git writes.                        *)
(***************************************************************************)
ApplyIdle ==
  /\ selection_marker_chunks = None /\ review_json = None /\ tokens = None
  /\ prompt_tokens = None /\ pc = None /\ line_number_stack = None
  /\ group_idx = None /\ chunk_payload = None /\ code_chunks_to_review = None
  /\ measured = None /\ attach_log = None /\ calls = None /\ send_idx = None
  /\ requests = None /\ reviewed_code = None /\ file_on_disk = None

InitDiff ==
  /\ diff_text = Text(<<>>, TRUE)
  /\ diff_files = <<>>
  /\ diff_pc = "building"
  /\ formatted = format_git_diff(Text(<<>>, TRUE))
  /\ ApplyIdle
  /\ ReviewIdle

SpecialFiles ==
  Cardinality({ i \in 1..Len(diff_files) : diff_files[i].kind /= "modified" })

RECURSIVE TotalHunks(_, _)
TotalHunks(files, i) ==
  IF i > Len(files) THEN 0 ELSE Len(files[i].hunks) + TotalHunks(files, i + 1)

\* git writes the header of the next file of the diff
AddFile ==
  /\ diff_pc = "building"
  /\ Len(diff_files) < MaxFiles
  /\ Len(diff_files) > MaxRichFiles => Last(diff_files).hunks /= <<>>
  /\ \E kind \in HeaderKinds :
       /\ kind /= "modified" =>
            /\ SpecialFiles < MaxSpecialFiles
            /\ Len(diff_files) < MaxRichFiles
       /\ diff_text' = Text(diff_text.lines
                              \o FileHeader(kind, Len(diff_files) + 1), TRUE)
       /\ diff_files' = Append(diff_files, [ kind |-> kind, hunks |-> <<>> ])
  /\ UNCHANGED << diff_pc, formatted, apply_vars, review_vars >>

\* the diff with one more hunk in its last file
WithHunk(new_start, body, trailing) ==
  /\ diff_text' = Text(diff_text.lines \o Hunk(new_start, body, trailing), TRUE)
  /\ diff_files' =
       [ diff_files EXCEPT ![Len(diff_files)].hunks =
           Append(@, [ new_start |-> new_start,
                       new_count |-> NewCount(body),
                       trailing  |-> trailing ]) ]

\* git writes the next hunk of the last file: it starts after the one before
AddHunk ==
  /\ diff_pc = "building"
  /\ Len(diff_files) >= 1
  /\ Len(diff_files) <= MaxRichFiles
  /\ TotalHunks(diff_files, 1) < MaxDiffHunks
  /\ \E new_start \in HunkStarts, body \in HunkBodies, trailing \in HeaderTexts :
       LET prev == Last(diff_files).hunks
       IN /\ new_start + NewCount(body) - 1 <= MaxLine
          /\ prev /= <<>> =>
               /\ new_start > Last(prev).new_start
               /\ new_start >= Last(prev).new_start + Last(prev).new_count
          /\ WithHunk(new_start, body, trailing)
  /\ UNCHANGED << diff_pc, formatted, apply_vars, review_vars >>

\* git writes the one hunk of a file after the leading ones
AddPlainHunk ==
  /\ diff_pc = "building"
  /\ Len(diff_files) > MaxRichFiles
  /\ Last(diff_files).hunks = <<>>
  /\ WithHunk(1, << Plain("-"), Plain("+") >>, "")
  /\ UNCHANGED << diff_pc, formatted, apply_vars, review_vars >>

\* formatter.format_git_diff(diff_text)
FormatDiff ==
  /\ diff_pc = "building"
  /\ formatted' = format_git_diff(diff_text)
  /\ diff_pc' = "formatted"
  /\ UNCHANGED << diff_text, diff_files, apply_vars, review_vars >>

NextDiff ==
  \/ AddFile
  \/ AddHunk
  \/ AddPlainHunk
  \/ FormatDiff

SpecDiff == InitDiff /\ [][NextDiff]_vars

(***************************************************************************)
(* formatter.parse_review_result and reviewer.request_review                *)
(***************************************************************************)
\* feedback texts of a review; the second holds a phrase that
\* has_not_used_or_unused looks for
Feedbacks == { "use a context manager", "unused variable" }

\* formatter.py:128-137
has_not_used_or_unused(feedback) == feedback \in { "unused variable" }

\* formatter.py:126-147: the entries whose feedback is not filtered out
RECURSIVE remove_unused_suggestions(_)
remove_unused_suggestions(review_result) ==
  IF review_result = <<>> THEN <<>>
  ELSE IF has_not_used_or_unused(Head(review_result).feedback)
       THEN remove_unused_suggestions(Tail(review_result))
       ELSE << Head(review_result) >>
              \o remove_unused_suggestions(Tail(review_result))

\* what a response of the service holds when it parses: entries by line
ReviewContents ==
  { r \in SeqsUpTo([ line : 1..MaxLine, feedback : Feedbacks ], MaxEntries) :
      IsInjective([ i \in 1..Len(r) |-> r[i].line ]) }

\* a response of the service: nothing, or a text
Responses ==
  { [ empty |-> TRUE, review |-> <<>> ] }
    \cup { [ empty |-> FALSE, review |-> r ] : r \in ReviewContents }

\* formatter.parse_review_result applied to the text a layer prepared: it
\* parses, json.loads raises ValueError, or the parsed value has not the shape
\* remove_unused_suggestions reads and another exception is raised; an empty
\* answer never parses
ParseOutcomes(review_result) ==
  IF review_result.empty
  THEN { "ValueError", "other exception" }
  ELSE { "parsed", "ValueError", "other exception" }

\* the except ValueError clauses of reviewer.py:20-54: where a layer that
\* raised ValueError hands over
OnValueErrorNoRepair(layer) ==
  CASE layer = "direct"      -> "markdown"
    [] layer = "markdown"    -> "truncated"
    [] layer = "truncated"   -> "return None"
    [] layer = "regenerated" -> "return None"

OnValueError(layer) ==
  CASE layer = "direct"      -> "markdown"
    [] layer = "markdown"    -> "truncated"
    [] layer = "truncated"   -> "repair"
    [] layer = "regenerated" -> "return None"

Pending == [ kind |-> "pending", review |-> <<>> ]
ReturnedNone == [ kind |-> "None", review |-> <<>> ]
Returned(review_json_) == [ kind |-> "review", review |-> review_json_ ]

InitReview ==
  /\ rr_pc = "start"
  /\ rr_response = [ empty |-> TRUE, review |-> <<>> ]
  /\ rr_layers = <<>>
  /\ rr_requests = <<>>
  /\ rr_result = Pending
  /\ ApplyIdle
  /\ DiffIdle

\* reviewer.py:13-19: the review request; an empty answer returns None
SendReviewRequest ==
  /\ rr_pc = "start"
  /\ rr_requests' = Append(rr_requests, "Reviewing")
  /\ \E review_result \in Responses :
       /\ rr_response' = review_result
       /\ IF review_result.empty
          THEN rr_result' = ReturnedNone /\ rr_pc' = "returned"
          ELSE rr_result' = rr_result /\ rr_pc' = "direct"
  /\ UNCHANGED << rr_layers, apply_vars, diff_vars >>

\* one parse layer: parse_review_result on the text the layer prepared
ParseLayer(layer) ==
  /\ rr_pc = layer
  /\ \E outcome \in ParseOutcomes(rr_response) :
       /\ rr_layers' = Append(rr_layers, [ layer |-> layer, outcome |-> outcome ])
       /\ IF outcome = "parsed"
          THEN /\ rr_result' = Returned(remove_unused_suggestions(rr_response.review))
               /\ rr_pc' = "returned"
          ELSE IF outcome = "ValueError"
          THEN IF OnValueError(layer) = "return None"
               THEN rr_result' = ReturnedNone /\ rr_pc' = "returned"
               ELSE rr_result' = rr_result /\ rr_pc' = OnValueError(layer)
          ELSE rr_result' = rr_result /\ rr_pc' = "raised"
  /\ UNCHANGED << rr_response, rr_requests, apply_vars, diff_vars >>

\* reviewer.py:20-21
ParseDirect == ParseLayer("direct")

\* reviewer.py:23-27
ParseMarkdownCodeBlock == ParseLayer("markdown")

\* reviewer.py:29-33
ParseRepairedTruncated == ParseLayer("truncated")

\* reviewer.py:36-42: the repair request
SendRepairRequest ==
  /\ rr_pc = "repair"
  /\ rr_requests' = Append(rr_requests, "Repairing")
  /\ \E review_result \in Responses : rr_response' = review_result
  /\ rr_pc' = "regenerated"
  /\ UNCHANGED << rr_layers, rr_result, apply_vars, diff_vars >>

\* reviewer.py:43-54
ParseRegenerated == ParseLayer("regenerated")

NextReview ==
  \/ SendReviewRequest
  \/ ParseDirect
  \/ ParseMarkdownCodeBlock
  \/ ParseRepairedTruncated
  \/ SendRepairRequest
  \/ ParseRegenerated

SpecReview == InitReview /\ [][NextReview]_vars

(***************************************************************************)
(* Properties of the merge pass of apply_review.                           *)
(***************************************************************************)
\* the loop over the marker groups has ended
PassEnded == pc \in { "send", "done", "TypeError" }

\* every CodeUnit of the file, in the order the pass walks them
RECURSIVE UnitsFrom(_, _)
UnitsFrom(groups, g) ==
  IF g > Len(groups) THEN <<>>
  ELSE groups[g].units \o UnitsFrom(groups, g + 1)

AllUnits == UnitsFrom(selection_marker_chunks.values, 1)

\* the closed interval of absolute line numbers of a unit
InClosedRange(unit, n) == unit.start_line <= n /\ n <= unit.end_line

\* the line numbers attached to any unit so far
Attached == UNION { attach_log[i].lines : i \in 1..Len(attach_log) }

\* every payload the merge calls returned, in order
RECURSIVE PayloadsFrom(_, _)
PayloadsFrom(cs, i) ==
  IF i > Len(cs) THEN <<>>
  ELSE cs[i].result.hunk_review_payload \o PayloadsFrom(cs, i + 1)

Emitted == PayloadsFrom(calls, 1)

\* C1: an entry with line number n is attached to a unit only if
\* start_line <= n <= end_line; a unit whose end_line is below its start_line
\* is attached nothing.
C1_AttachedOnlyInClosedRange ==
  \A i \in 1..Len(attach_log) :
    /\ \A n \in attach_log[i].lines : InClosedRange(attach_log[i].unit, n)
    /\ attach_log[i].unit.end_line < attach_log[i].unit.start_line
         => attach_log[i].lines = {}

\* C2: when the merge pass has ended, every review entry whose line number
\* lies in the line range of some unit of the file has been attached.
C2_EveryCoveredEntryAttached ==
  PassEnded /\ ~ selection_marker_chunks.is_none /\ tokens > TokenCeiling =>
    \A k \in 1..Len(review_json) :
      (\E u \in 1..Len(AllUnits) : InClosedRange(AllUnits[u], review_json[k]))
        => review_json[k] \in Attached

\* C3: over a whole merge pass no entry is attached to two units: a line
\* number occurs in the match set of at most one emitted payload, and the
\* pass ends with the stack empty or with every unit visited.
C3_NoEntryAttachedTwice ==
  /\ \A i, j \in 1..Len(attach_log) :
       i /= j => attach_log[i].lines \cap attach_log[j].lines = {}
  /\ \A i, j \in 1..Len(Emitted) :
       i /= j => Emitted[i].parts[2] \cap Emitted[j].parts[2] = {}
  /\ (PassEnded /\ ~ selection_marker_chunks.is_none /\ tokens > TokenCeiling)
       => \/ line_number_stack = <<>>
          \/ [ i \in 1..Len(attach_log) |-> attach_log[i].unit ] = AllUnits

\* a pass that ended with two units each attached an entry and two payloads
C3_Witness ==
  /\ pc = "send"
  /\ Len(Emitted) = 2
  /\ \E i, j \in 1..Len(attach_log) :
       i /= j /\ attach_log[i].lines /= {} /\ attach_log[j].lines /= {}

\* the payloads measured within the ceiling, in the order measured
RECURSIVE FittingChunks(_, _)
FittingChunks(ms, i) ==
  IF i > Len(ms) THEN <<>>
  ELSE IF ms[i].chunk_tokens <= TokenCeiling
       THEN << ms[i].chunk >> \o FittingChunks(ms, i + 1)
       ELSE FittingChunks(ms, i + 1)

\* C4: in the chunked path every payload of code_chunks_to_review costs, with
\* the prompt overhead, at most 2048 tokens; a payload above the ceiling is in
\* no batch and is never sent; the payloads that fit keep their order.
C4_OnlyFittingChunksKept ==
  /\ code_chunks_to_review = FittingChunks(measured, 1)
  /\ \A m \in 1..Len(measured) :
       measured[m].chunk_tokens > TokenCeiling =>
         /\ measured[m].chunk \notin Range(code_chunks_to_review)
         /\ \A r \in 1..Len(requests) :
              requests[r].kind = "chunk" =>
                requests[r].code /= measured[m].chunk.parts[1]

\* a pass in which a payload above the ceiling was dropped and a later one kept
C4_Witness ==
  /\ pc = "send"
  /\ Len(measured) = 2
  /\ measured[1].chunk_tokens > TokenCeiling
  /\ measured[2].chunk_tokens = TokenCeiling
  /\ code_chunks_to_review = << measured[2].chunk >>

\* C5: the whole-file request is sent only when the measured whole-file cost
\* is within the ceiling, whatever selection_marker_chunks is.
C5_WholeFileOnlyWithinCeiling ==
  \A r \in 1..Len(requests) :
    requests[r].kind = "file" => requests[r].tokens <= TokenCeiling

\* the requests for changes of a chunk that were sent, in order
RECURSIVE ChunkRequests(_, _)
ChunkRequests(rs, i) ==
  IF i > Len(rs) THEN <<>>
  ELSE IF rs[i].kind = "chunk" THEN << rs[i] >> \o ChunkRequests(rs, i + 1)
       ELSE ChunkRequests(rs, i + 1)

\* C9: every batch the chunked path hands to request_review_changes has a
\* code and a suggestions field, so every batch of code_chunks_to_review is
\* sent, one request per batch, in order.
C9_EveryBatchIsSent ==
  /\ \A i \in 1..Len(code_chunks_to_review) :
       /\ HasItem(code_chunks_to_review[i], "code")
       /\ HasItem(code_chunks_to_review[i], "suggestions")
  /\ pc /= "TypeError"
  /\ pc = "done" /\ ~ selection_marker_chunks.is_none /\ tokens > TokenCeiling
       => Len(ChunkRequests(requests, 1)) = Len(code_chunks_to_review)

\* the payloads of the units of a call that were attached something
RECURSIVE PayloadsOfAttached(_, _)
PayloadsOfAttached(attached, i) ==
  IF i > Len(attached) THEN <<>>
  ELSE IF attached[i].lines /= {}
       THEN << StrPayload(attached[i].unit.code, attached[i].lines) >>
              \o PayloadsOfAttached(attached, i + 1)
       ELSE PayloadsOfAttached(attached, i + 1)

\* C10: one call emits exactly one payload for each unit attached an entry and
\* none for the others, in unit order, each with the unit's text and exactly
\* its entries; when all entries of the stack lie within one unit, the result
\* is exactly one payload holding all of them.
C10_OnePayloadPerAttachedUnit ==
  \A c \in 1..Len(calls) :
    /\ calls[c].result.hunk_review_payload
         = PayloadsOfAttached(calls[c].result.attached, 1)
    /\ \A u \in 1..Len(calls[c].code_changes) :
         (\A k \in 1..Len(calls[c].stack) :
            InClosedRange(calls[c].code_changes[u], calls[c].stack[k]))
           => calls[c].result.hunk_review_payload
                = << StrPayload(calls[c].code_changes[u].code,
                                Range(calls[c].stack)) >>

(***************************************************************************)
(* Properties of format_git_diff.                                          *)
(***************************************************************************)
\* the numbers the numbered lines of a formatted text carry, in order
RECURSIVE NumbersOf(_, _)
NumbersOf(code, i) ==
  IF i > Len(code) THEN <<>>
  ELSE IF code[i].numbered THEN << code[i].number >> \o NumbersOf(code, i + 1)
       ELSE NumbersOf(code, i + 1)

\* the CodeChunks of file j (0-based) made from the hunk that starts at new_start
ChunksOfHunk(j, new_start) ==
  LET units == UnitsFrom(formatted.code_change_chunks[j], 1)
  IN { u \in 1..Len(units) :
         /\ Len(units[u].code) >= 1
         /\ units[u].code[1].line.kind = "@@"
         /\ units[u].code[1].line.new_start = new_start }

\* a CodeChunk numbered as the header of its hunk declares
WellNumbered(unit, h) ==
  /\ unit.start_line = h.new_start
  /\ unit.end_line = h.new_start + h.new_count - 1
  /\ NumbersOf(unit.code, 1) = [ k \in 1..h.new_count |-> h.new_start + k - 1 ]
  /\ \A i \in 1..Len(unit.code) :
       unit.code[i].numbered => unit.code[i].line.kind \in { " ", "+" }

\* C6: for every hunk of every file of a well-formed diff, the CodeChunk has
\* start_line = new_start, end_line = new_start + new_count - 1, and its text
\* holds exactly new_count numbered lines, numbered start_line..end_line in
\* order; removed lines and header lines get no number.
C6_HunkLinesNumbered ==
  diff_pc = "formatted" =>
    \A j \in 1..Len(diff_files) :
      \A m \in 1..Len(diff_files[j].hunks) :
        LET h == diff_files[j].hunks[m]
        IN /\ (j - 1) \in DOMAIN formatted.code_change_chunks
           /\ Cardinality(ChunksOfHunk(j - 1, h.new_start)) = 1
           /\ \A u \in ChunksOfHunk(j - 1, h.new_start) :
                WellNumbered(UnitsFrom(formatted.code_change_chunks[j - 1], 1)[u], h)

\* C7: for a diff of k file segments format_git_diff returns k file names,
\* k file paths and k entries of file_chunks and code_change_chunks, keyed
\* 0..k-1 in diff order, index j naming the j-th file; a segment without a
\* hunk header has no CodeUnits.
C7_OneRecordPerFile ==
  diff_pc = "formatted" =>
    LET k == Len(diff_files)
    IN /\ Len(formatted.file_names) = k
       /\ Len(formatted.file_paths) = k
       /\ DOMAIN formatted.file_chunks = 0..(k - 1)
       /\ DOMAIN formatted.code_change_chunks = 0..(k - 1)
       /\ \A j \in 0..(k - 1) :
            /\ formatted.file_names[j + 1]
                 = [ name |-> FileNames[j + 1], after |-> <<>> ]
            /\ formatted.file_paths[j + 1]
                 = [ path |-> Tail(NewPath(j + 1)), after |-> <<>> ]
            /\ diff_files[j + 1].hunks = <<>>
                 => formatted.code_change_chunks[j] = <<>>

(***************************************************************************)
(* Properties of the whole-file path of apply_review.                      *)
(***************************************************************************)
WholeFilePathTaken ==
  \E i \in 1..Len(requests) : requests[i].kind = "file"

\* C11: in the whole-file path of apply_review, when the service yields no
\* usable code the file on disk keeps the content it had before the call; the
\* file is rewritten only with replacement content that is not empty.
C11_FileKeptWithoutReplacement ==
  (pc = "done" /\ WholeFilePathTaken) =>
    \/ file_on_disk = "original"
    \/ file_on_disk \in ServiceAnswers \ { "" }

(***************************************************************************)
(* Properties of request_review.                                           *)
(***************************************************************************)
LayerOrder == << "direct", "markdown", "truncated", "regenerated" >>

\* C8: request_review tries its parse layers in the order direct, markdown
\* code block, truncated-JSON repair, regenerated response, and stops at the
\* first that parses; the repair request is sent only after the three local
\* layers failed and at most once; None is returned only when the first
\* response is empty or all four layers failed.
C8_LayersInOrder ==
  /\ Len(rr_layers) <= Len(LayerOrder)
  /\ \A i \in 1..Len(rr_layers) :
       /\ rr_layers[i].layer = LayerOrder[i]
       /\ i < Len(rr_layers) => rr_layers[i].outcome = "ValueError"
  /\ rr_result.kind = "review" =>
       /\ rr_layers /= <<>>
       /\ Last(rr_layers).outcome = "parsed"
  /\ Cardinality({ i \in 1..Len(rr_requests) : rr_requests[i] = "Repairing" }) <= 1
  /\ (\E i \in 1..Len(rr_requests) : rr_requests[i] = "Repairing") =>
       /\ Len(rr_layers) >= 3
       /\ \A i \in 1..3 : rr_layers[i].outcome = "ValueError"
  /\ rr_result.kind = "None" =>
       \/ rr_layers = <<>> /\ rr_response.empty /\ rr_requests = << "Reviewing" >>
       \/ /\ Len(rr_layers) = Len(LayerOrder)
          /\ \A i \in 1..Len(rr_layers) : rr_layers[i].outcome = "ValueError"

\* the review abandoned after the four layers failed, one repair request sent
C8_Witness ==
  /\ rr_pc = "returned"
  /\ rr_result.kind = "None"
  /\ Len(rr_layers) = Len(LayerOrder)
  /\ rr_requests = << "Reviewing", "Repairing" >>

====
